---- MODULE Spec2Model ----
(***************************************************************************)
(* Model of the streaming callback handler of the demo agent               *)
(* (src/demo_agent/handlers/callback_handler.py) and of the session loop   *)
(* that drives it (src/demo_agent/agent.py, main).                         *)
(*                                                                         *)
(* One handler call is one atomic step: the runtime calls the handler      *)
(* synchronously, one event at a time.  Python values that the handler     *)
(* probes are modelled as tagged records, so that a field of unexpected    *)
(* shape is a value the handler can meet.                                  *)
(***************************************************************************)
EXTENDS Integers, Sequences, FiniteSets, TLC

\* ------------------------------------------------------------------ bounds
MaxEvents == 3        \* handler calls in one behaviour
MaxInputLen == 2      \* longest cumulative tool input, in characters
MaxFragments == 2     \* tool-input fragments in one behaviour of SpecLive

\* ------------------------------------------------------------ Python values
NoId == "None"                         \* Python None as toolUseId / current_tool
Ids == {"A", "B"}                      \* invocation ids the runtime assigns
Names == {"lookup", "search"}          \* tool names
Statuses == {"success", "error", "None"}   \* toolResult status; "None" = absent
NoSpinner == 0                         \* current_spinner is None

\* a str of n characters
RECURSIVE Str(_)
Str(n) == IF n = 0 THEN << >> ELSE <<"x">> \o Str(n - 1)

\* tool input values: shape "absent" (key missing, None or ""), "str", "int"
NoInput == [shape |-> "absent", chars |-> << >>, num |-> 0]
StrInput(s) == [shape |-> "str", chars |-> s, num |-> 0]
IntInput(n) == [shape |-> "int", chars |-> << >>, num |-> n]

\* current_tool_use values: shape "absent" (missing, None or {}), "dict",
\* or "str" (a non-empty string where a mapping is expected)
NoToolUse == [shape |-> "absent", id |-> NoId, name |-> "lookup", input |-> NoInput]
ToolUse(id, name, input) == [shape |-> "dict", id |-> id, name |-> name, input |-> input]
BadToolUse == [shape |-> "str", id |-> NoId, name |-> "lookup", input |-> NoInput]

\* one field of a content entry: toolUse / toolResult
NoField == [shape |-> "absent", id |-> NoId, name |-> "lookup", status |-> "None"]
ToolUseField(name) == [shape |-> "dict", id |-> NoId, name |-> name, status |-> "None"]
ToolResultField(id, status) == [shape |-> "dict", id |-> id, name |-> "lookup", status |-> status]
BadField == [shape |-> "str", id |-> NoId, name |-> "lookup", status |-> "None"]

\* content entries: a dict with optional toolUse / toolResult, or a non-dict
Entry(tu, tr) == [shape |-> "dict", toolUse |-> tu, toolResult |-> tr]
BadEntry == [shape |-> "str", toolUse |-> NoField, toolResult |-> NoField]

\* message content: "absent" (key missing), "none", "int", "str", or "list"
Content(shape, items) == [shape |-> shape, items |-> items]

\* message values: "absent" (kwarg missing: {}), "dict", "none" (not a dict)
NoMessage == [shape |-> "absent", role |-> "None", content |-> Content("absent", << >>)]
Message(role, content) == [shape |-> "dict", role |-> role, content |-> content]
BadMessage == [shape |-> "none", role |-> "None", content |-> Content("absent", << >>)]

\* the keyword arguments of one handler call
Event(data, complete, ctu, message) ==
    [data |-> data, complete |-> complete, current_tool_use |-> ctu, message |-> message]

TextEv(data, complete) == Event(data, complete, NoToolUse, NoMessage)
ToolInputEv(id, name, input) == Event(<< >>, FALSE, ToolUse(id, name, input), NoMessage)
ToolStartEv(name) ==
    Event(<< >>, FALSE, NoToolUse,
          Message("assistant", Content("list", <<Entry(ToolUseField(name), NoField)>>)))
ToolResultEv(results) ==
    Event(<< >>, FALSE, NoToolUse,
          Message("user", Content("list",
              [i \in 1..Len(results) |->
                  Entry(NoField, ToolResultField(results[i][1], results[i][2]))])))

\* ------------------------------------------------------------ console output
\* standard output is a sequence of tokens: characters, the two colour codes
\* and the line terminator
WHITE == "Fore.WHITE"
RESET == "Style.RESET_ALL"
NL == "\n"

\* print(f"{Fore.WHITE}{data}{Style.RESET_ALL}", end=...)
PrintText(out, data, complete) ==
    out \o <<WHITE>> \o data \o <<RESET>> \o (IF complete THEN <<NL>> ELSE << >>)

\* the text of a progress line
Label(kind, name, n) == [kind |-> kind, name |-> name, n |-> n]

\* one call on the Halo indicator of spinner sp, made at handler call `at`
\* while working on invocation id
Call(op, sp, text, id, at) == [op |-> op, sp |-> sp, text |-> text, id |-> id, at |-> at]

\* ---------------------------------------------------------------- ToolSpinner
\* h is the handler object together with the console it writes to:
\*   current_spinner, current_tool, tool_histories   (CallbackHandler fields)
\*   spinners   every ToolSpinner constructed so far: [halo, text, tool]
\*   stdout     tokens printed so far
\*   display    calls made on Halo indicators so far
\*   raised     the exception the running handler call has raised, or "none"

\* ToolSpinner(text, color)
NewSpinner(h, text, id) ==
    [h EXCEPT !.spinners = Append(@, [halo |-> "created", text |-> text, tool |-> id])]

\* ToolSpinner.start(): print() then Halo.start
SpinnerStart(h, sp, id, at) ==
    [h EXCEPT !.stdout = Append(@, NL),
              !.spinners[sp].halo = "spinning",
              !.display = Append(@, Call("start", sp, h.spinners[sp].text, id, at))]

\* ToolSpinner.update(text): sets the text of the Halo
SpinnerUpdate(h, sp, text, id, at) ==
    [h EXCEPT !.spinners[sp].text = text,
              !.display = Append(@, Call("update", sp, text, id, at))]

\* ToolSpinner.succeed(text): Halo.succeed stops the animation and persists the line
SpinnerSucceed(h, sp, text, id, at) ==
    [h EXCEPT !.spinners[sp].text = text,
              !.spinners[sp].halo = "succeeded",
              !.display = Append(@, Call("succeed", sp, text, id, at))]

\* ToolSpinner.fail(text): Halo.fail stops the animation and persists the line
SpinnerFail(h, sp, text, id, at) ==
    [h EXCEPT !.spinners[sp].text = text,
              !.spinners[sp].halo = "failed",
              !.display = Append(@, Call("fail", sp, text, id, at))]

\* ToolSpinner.info(text): Halo.info stops the animation and persists the line
SpinnerInfo(h, sp, text, id, at) ==
    [h EXCEPT !.spinners[sp].text = text,
              !.spinners[sp].halo = "info",
              !.display = Append(@, Call("info", sp, text, id, at))]

\* ToolSpinner.stop(): Halo.stop, no status line
SpinnerStop(h, sp, id, at) ==
    [h EXCEPT !.spinners[sp].halo = "stopped",
              !.display = Append(@, Call("stop", sp, h.spinners[sp].text, id, at))]

Raise(h, exc) == [h EXCEPT !.raised = exc]

\* ------------------------------------------------------------ the handler
\* mutant of HandleOutput: the spinner in the slot is stopped before text is printed
HandleOutputStopsSpinner(h, e) ==
    IF Len(e.data) > 0
    THEN [h EXCEPT !.stdout = PrintText(@, e.data, e.complete),
                   !.spinners = [i \in DOMAIN @ |->
                                   IF i = h.current_spinner
                                   THEN [@[i] EXCEPT !.halo = "stopped"] ELSE @[i]]]
    ELSE h

\* "Handle regular output"
HandleOutput(h, e) ==
    IF Len(e.data) > 0
    THEN [h EXCEPT !.stdout = PrintText(@, e.data, e.complete)]
    ELSE h

\* truth value of current_tool_use.get("input")
InputTruthy(input) ==
    \/ input.shape = "str" /\ Len(input.chars) > 0
    \/ input.shape = "int" /\ input.num # 0

\* mutant of StopPrevious: the previous spinner is left running
StopPreviousNone(h, at) == h

\* mutant of StopPrevious: the previous spinner is finalized as succeeded
StopPreviousSucceed(h, at) ==
    IF h.current_spinner # NoSpinner
    THEN SpinnerSucceed(h, h.current_spinner, h.spinners[h.current_spinner].text,
                        h.current_tool, at)
    ELSE h

\* "Stop previous spinner if exists"
StopPrevious(h, at) ==
    IF h.current_spinner # NoSpinner
    THEN SpinnerStop(h, h.current_spinner, h.current_tool, at)
    ELSE h

\* the body of "if tool_id != self.current_tool" after the stop: take the slot,
\* construct and start the spinner, record the tool start
StartTool(h, tool_id, tool_name, at) ==
    LET h1 == [h EXCEPT !.current_tool = tool_id]
        h2 == NewSpinner(h1, Label("preparing", tool_name, 0), tool_id)
        sp == Len(h2.spinners)
        h3 == SpinnerStart([h2 EXCEPT !.current_spinner = sp], sp, tool_id, at)
        entry == [name |-> tool_name, start_time |-> at, input_size |-> 0]
    IN  [h3 EXCEPT !.tool_histories =
            [k \in DOMAIN @ \cup {tool_id} |-> IF k = tool_id THEN entry ELSE @[k]]]

\* "Check if this is a new tool execution"
NewToolExecution(h, tool_id, tool_name, at) ==
    IF tool_id # h.current_tool
    THEN StartTool(StopPrevious(h, at), tool_id, tool_name, at)
    ELSE h

\* "Update tool progress"
UpdateProgress(h, tool_id, tool_name, input, at) ==
    IF tool_id \in DOMAIN h.tool_histories
    THEN IF input.shape = "int"
         THEN Raise(h, "TypeError")                   \* len() of an int
         ELSE LET current_size == Len(input.chars)
              IN  IF current_size > h.tool_histories[tool_id].input_size
                  THEN LET h1 == [h EXCEPT !.tool_histories[tool_id].input_size = current_size]
                       IN  IF h1.current_spinner # NoSpinner
                           THEN SpinnerUpdate(h1, h1.current_spinner,
                                              Label("chars", tool_name, current_size),
                                              tool_id, at)
                           ELSE h1
                  ELSE h
    ELSE h

\* "Handle tool input streaming"
HandleToolInput(h, e, at) ==
    LET ctu == e.current_tool_use
    IN  IF ctu.shape = "absent" THEN h
        ELSE IF ctu.shape # "dict" THEN Raise(h, "AttributeError")   \* no .get
        ELSE IF ~InputTruthy(ctu.input) THEN h
        ELSE UpdateProgress(NewToolExecution(h, ctu.id, ctu.name, at),
                            ctu.id, ctu.name, ctu.input, at)

\* one content entry of an assistant message: "Handle assistant messages (tool starts)"
ToolStartEntry(h, c, at) ==
    IF c.shape # "dict" THEN h
    ELSE IF c.toolUse.shape = "absent" THEN h
    ELSE IF c.toolUse.shape # "dict" THEN Raise(h, "AttributeError")   \* no .get
    ELSE IF h.current_spinner # NoSpinner
         THEN SpinnerInfo(h, h.current_spinner, Label("starting", c.toolUse.name, 0),
                          h.current_tool, at)
         ELSE h

\* mutant of RenderResult: every status but "error" is rendered as success
RenderResultUnlessError(h, tool_id, status, at) ==
    LET tool_info == h.tool_histories[tool_id]
        duration == at - tool_info.start_time
    IN  IF h.current_spinner # NoSpinner
        THEN IF status # "error"
             THEN SpinnerSucceed(h, h.current_spinner,
                                 Label("completed", tool_info.name, duration), tool_id, at)
             ELSE SpinnerFail(h, h.current_spinner,
                              Label("failed", tool_info.name, duration), tool_id, at)
        ELSE h

\* "Update spinner": the terminal line of a result, on whatever spinner holds the slot
RenderResult(h, tool_id, status, at) ==
    LET tool_info == h.tool_histories[tool_id]
        duration == at - tool_info.start_time
    IN  IF h.current_spinner # NoSpinner
        THEN IF status = "success"
             THEN SpinnerSucceed(h, h.current_spinner,
                                 Label("completed", tool_info.name, duration), tool_id, at)
             ELSE SpinnerFail(h, h.current_spinner,
                              Label("failed", tool_info.name, duration), tool_id, at)
        ELSE h

\* mutant of Cleanup: the Ledger entry is not deleted
CleanupKeepsEntry(h, tool_id) ==
    [h EXCEPT !.current_spinner = NoSpinner,
              !.current_tool = NoId]

\* "Cleanup"
Cleanup(h, tool_id) ==
    [h EXCEPT !.tool_histories = [k \in DOMAIN @ \ {tool_id} |-> @[k]],
              !.current_spinner = NoSpinner,
              !.current_tool = NoId]

\* mutant of CompleteTool: only the result of the tracked id is handled
CompleteToolOnlyTracked(h, tool_id, status, at) ==
    IF tool_id \in DOMAIN h.tool_histories /\ tool_id = h.current_tool
    THEN [RenderResult(h, tool_id, status, at) EXCEPT
              !.tool_histories = [k \in DOMAIN @ \ {tool_id} |-> @[k]],
              !.current_spinner = NoSpinner,
              !.current_tool = NoId]
    ELSE h

\* mutant of CompleteTool: the slot is cleared outside the membership test
CompleteToolClearsAlways(h, tool_id, status, at) ==
    IF tool_id \in DOMAIN h.tool_histories
    THEN [RenderResult(h, tool_id, status, at) EXCEPT
              !.tool_histories = [k \in DOMAIN @ \ {tool_id} |-> @[k]],
              !.current_spinner = NoSpinner,
              !.current_tool = NoId]
    ELSE [h EXCEPT !.current_spinner = NoSpinner, !.current_tool = NoId]

\* the body of "if tool_result"
CompleteTool(h, tool_id, status, at) ==
    IF tool_id \in DOMAIN h.tool_histories
    THEN Cleanup(RenderResult(h, tool_id, status, at), tool_id)
    ELSE h

\* one content entry of a user message: "Handle user messages (tool results)"
ToolResultEntry(h, c, at) ==
    IF c.shape # "dict" THEN h
    ELSE IF c.toolResult.shape = "absent" THEN h
    ELSE IF c.toolResult.shape # "dict" THEN Raise(h, "AttributeError")   \* no .get
    ELSE CompleteTool(h, c.toolResult.id, c.toolResult.status, at)

\* for content in message.get("content", []): an exception ends the loop
RECURSIVE ForEachContent(_, _, _, _, _)
ForEachContent(h, role, items, i, at) ==
    IF i > Len(items) \/ h.raised # "none" THEN h
    ELSE ForEachContent(IF role = "assistant"
                        THEN ToolStartEntry(h, items[i], at)
                        ELSE ToolResultEntry(h, items[i], at),
                        role, items, i + 1, at)

\* "Process messages"
ProcessMessage(h, e, at) ==
    LET message == e.message
    IN  IF message.shape \notin {"dict", "absent"} THEN h        \* not a dict
        ELSE IF message.shape = "absent" THEN h                  \* {}: no role
        ELSE IF message.role \notin {"assistant", "user"} THEN h
        ELSE IF message.content.shape = "absent" THEN h          \* default []
        ELSE IF message.content.shape \in {"none", "int"}
             THEN Raise(h, "TypeError")                          \* not iterable
        ELSE IF message.content.shape = "str" THEN h             \* characters: no dicts
        ELSE ForEachContent(h, message.role, message.content.items, 1, at)

\* CallbackHandler.callback_handler(**kwargs), called at time `at`
Handler(h, e, at) ==
    LET h0 == [h EXCEPT !.raised = "none"]
        h1 == HandleOutput(h0, e)
        h2 == HandleToolInput(h1, e, at)
    IN  IF h2.raised # "none" THEN h2 ELSE ProcessMessage(h2, e, at)

\* ------------------------------------------------------------------ state
VARIABLES
    current_spinner,   \* index into spinners, or NoSpinner
    current_tool,      \* id that owns the slot, or NoId
    tool_histories,    \* the Ledger: id -> [name, start_time, input_size]
    spinners,          \* every ToolSpinner constructed so far
    stdout,            \* tokens printed so far
    display,           \* calls made on Halo indicators so far
    raised,            \* exception raised by the last handler call, or "none"
    now,               \* clock: ticks once before every handler call
    events,            \* the events delivered so far, in order
    prev,              \* the handler as it was before the last call
    pc                 \* session loop: "prompt", "agent" or "exited"

vars == <<current_spinner, current_tool, tool_histories, spinners, stdout,
          display, raised, now, events, prev, pc>>

\* the handler object and its console as one record
Self ==
    [current_spinner |-> current_spinner, current_tool |-> current_tool,
     tool_histories |-> tool_histories, spinners |-> spinners,
     stdout |-> stdout, display |-> display, raised |-> raised]

\* CallbackHandler.__init__
NewHandler ==
    [current_spinner |-> NoSpinner, current_tool |-> NoId,
     tool_histories |-> [k \in {} |-> 0], spinners |-> << >>,
     stdout |-> << >>, display |-> << >>, raised |-> "none"]

Install(h) ==
    /\ current_spinner' = h.current_spinner
    /\ current_tool' = h.current_tool
    /\ tool_histories' = h.tool_histories
    /\ spinners' = h.spinners
    /\ stdout' = h.stdout
    /\ display' = h.display
    /\ raised' = h.raised

\* the runtime calls the handler with event e while agent(query) runs; an
\* exception of the handler escapes agent(query), main reports it and prompts again
Deliver(e) ==
    /\ pc = "agent"
    /\ now' = now + 1
    /\ Install(Handler(Self, e, now + 1))
    /\ events' = Append(events, e)
    /\ prev' = Self
    /\ pc' = IF raised' # "none" THEN "prompt" ELSE pc

\* ------------------------------------------------------------------ events
TextData == {<< >>, <<"a">>, <<"b">>}

\* the toolResult entries of one user message: one result of any id and
\* status, or two successful results of known ids
ResultLists ==
    {<<r>> : r \in (Ids \cup {NoId}) \X Statuses}
      \cup {<<<<i, "success">>, <<j, "success">>>> : i, j \in Ids}

\* assistant text, streamed
TextFragment ==
    /\ Len(events) < MaxEvents
    /\ \E d \in TextData, c \in BOOLEAN : Deliver(TextEv(d, c))

\* tool input, streamed: the cumulative input seen so far
ToolInputFragment ==
    /\ Len(events) < MaxEvents
    /\ \E id \in Ids \cup {NoId}, name \in Names, n \in 1..MaxInputLen :
          Deliver(ToolInputEv(id, name, StrInput(Str(n))))

\* assistant message with a toolUse entry
ToolStarted ==
    /\ Len(events) < MaxEvents
    /\ \E name \in Names : Deliver(ToolStartEv(name))

\* user message with toolResult entries
ToolResult ==
    /\ Len(events) < MaxEvents
    /\ \E rs \in ResultLists : Deliver(ToolResultEv(rs))

Init ==
    /\ current_spinner = NewHandler.current_spinner
    /\ current_tool = NewHandler.current_tool
    /\ tool_histories = NewHandler.tool_histories
    /\ spinners = NewHandler.spinners
    /\ stdout = NewHandler.stdout
    /\ display = NewHandler.display
    /\ raised = NewHandler.raised
    /\ now = 0
    /\ events = << >>
    /\ prev = NewHandler
    /\ pc = "agent"

Next == TextFragment \/ ToolInputFragment \/ ToolStarted \/ ToolResult

Spec == Init /\ [][Next]_vars

\* -------------------------------------------------- events of unexpected shape
Roles == {"assistant", "user"}

MalformedEvents ==
    \* current_tool_use is not a mapping
    {Event(<< >>, FALSE, BadToolUse, NoMessage)}
    \* tool input is not a string
      \cup {ToolInputEv(id, "lookup", IntInput(7)) : id \in Ids}
    \* message is not a mapping
      \cup {Event(<< >>, FALSE, NoToolUse, BadMessage)}
    \* message content absent, None, a number or a string
      \cup {Event(<< >>, FALSE, NoToolUse, Message(r, Content(sh, << >>))) :
                r \in Roles, sh \in {"absent", "none", "int", "str"}}
    \* a content entry that is not a mapping
      \cup {Event(<< >>, FALSE, NoToolUse, Message(r, Content("list", <<BadEntry>>))) :
                r \in Roles}
    \* a toolUse / toolResult entry that is not a mapping
      \cup {Event(<< >>, FALSE, NoToolUse,
                  Message(r, Content("list", <<Entry(BadField, BadField)>>))) : r \in Roles}

Malformed ==
    /\ Len(events) < MaxEvents
    /\ \E e \in MalformedEvents : Deliver(e)

\* one event that carries text, tool input and a message at once
MixedEvents ==
    {Event(<<"a">>, c, ToolUse(id, "lookup", StrInput(Str(1))), m.message) :
        c \in BOOLEAN, id \in Ids,
        m \in {ToolStartEv("search")} \cup {ToolResultEv(<< <<j, "success">> >>) : j \in Ids}}

Mixed ==
    /\ Len(events) < MaxEvents
    /\ \E e \in MixedEvents : Deliver(e)

\* ------------------------------------------------------------- session loop
\* main(), interactive mode: while True: query = prompt(...); agent(query)
HandlerUnchanged ==
    UNCHANGED <<current_spinner, current_tool, tool_histories, spinners, stdout,
                display, raised, now, events, prev>>

\* a query is read and agent(query) is called
Query ==
    /\ pc = "prompt"
    /\ pc' = "agent"
    /\ HandlerUnchanged

\* agent(query) returns, or raises an Exception that main reports: next prompt
AgentReturns ==
    /\ pc = "agent"
    /\ pc' = "prompt"
    /\ HandlerUnchanged

\* "exit" / "quit" / "bye", or EOFError at the prompt: break
Quit ==
    /\ pc = "prompt"
    /\ pc' = "exited"
    /\ HandlerUnchanged

\* except KeyboardInterrupt: print "Interrupted"; break
KeyboardInterrupt ==
    /\ pc \in {"prompt", "agent"}
    /\ pc' = "exited"
    /\ HandlerUnchanged

InitSession ==
    /\ current_spinner = NewHandler.current_spinner
    /\ current_tool = NewHandler.current_tool
    /\ tool_histories = NewHandler.tool_histories
    /\ spinners = NewHandler.spinners
    /\ stdout = NewHandler.stdout
    /\ display = NewHandler.display
    /\ raised = NewHandler.raised
    /\ now = 0
    /\ events = << >>
    /\ prev = NewHandler
    /\ pc = "prompt"

NextSession ==
    \/ Query
    \/ AgentReturns
    \/ Quit
    \/ KeyboardInterrupt
    \/ TextFragment
    \/ ToolInputFragment
    \/ ToolStarted
    \/ ToolResult
    \/ Mixed
    \/ Malformed

SpecSession == InitSession /\ [][NextSession]_vars

\* ============================================================ properties
\* ------------------------------------------------------------ vocabulary
Delivered == Len(events) > 0
LastEvent == events[Len(events)]

\* the calls the last handler call made on indicators
StepCalls == SubSeq(display, Len(prev.display) + 1, Len(display))
Ops(calls) == [i \in DOMAIN calls |-> calls[i].op]

\* an indicator that was started and neither stopped nor finalized
Spinning(sps) == {i \in DOMAIN sps : sps[i].halo = "spinning"}

\* event kinds, as the handler tells them apart
IsText(e) ==
    e.current_tool_use.shape = "absent" /\ e.message.shape = "absent"
IsToolInput(e) ==
    /\ e.data = << >> /\ e.message.shape = "absent"
    /\ e.current_tool_use.shape = "dict"
    /\ e.current_tool_use.input.shape = "str"
    /\ Len(e.current_tool_use.input.chars) > 0
IsToolStart(e) ==
    /\ e.data = << >> /\ e.current_tool_use.shape = "absent"
    /\ e.message.shape = "dict" /\ e.message.role = "assistant"
    /\ e.message.content.shape = "list"
    /\ \A i \in DOMAIN e.message.content.items :
          /\ e.message.content.items[i].shape = "dict"
          /\ e.message.content.items[i].toolUse.shape = "dict"
IsToolResult(e) ==
    /\ e.data = << >> /\ e.current_tool_use.shape = "absent"
    /\ e.message.shape = "dict" /\ e.message.role = "user"
    /\ e.message.content.shape = "list"
    /\ Len(e.message.content.items) > 0
    /\ \A i \in DOMAIN e.message.content.items :
          /\ e.message.content.items[i].shape = "dict"
          /\ e.message.content.items[i].toolResult.shape = "dict"

\* the toolResult entries of a tool-result event
Results(e) ==
    [i \in DOMAIN e.message.content.items |-> e.message.content.items[i].toolResult]
ResultIds(e) == {Results(e)[i].id : i \in DOMAIN Results(e)}

\* every tool-input fragment and every result delivered so far carries an id
AllIdsPresent ==
    \A k \in DOMAIN events :
        /\ events[k].current_tool_use.shape = "dict" => events[k].current_tool_use.id \in Ids
        /\ IsToolResult(events[k]) => ResultIds(events[k]) \subseteq Ids

Tracking(h, id) == h.current_tool = id /\ id \in Ids
Idle(h) == h.current_tool = NoId /\ h.current_spinner = NoSpinner

\* ------------------------------------------------------------------- C1
\* C1 (single active slot): after every handler call at most one indicator is
\* started and not yet stopped or finalized, and it is the one in
\* current_spinner; every indicator that left current_spinner received its
\* stop / succeed / fail call before any later indicator was started.
SingleActiveSlot ==
    /\ Cardinality(Spinning(spinners)) <= 1
    /\ Spinning(spinners) \subseteq {current_spinner}
    /\ \A k \in DOMAIN display :
          display[k].op = "start" =>
             \A i \in 1..(display[k].sp - 1) :
                \E m \in 1..(k - 1) :
                   /\ display[m].sp = i
                   /\ display[m].op \in {"stop", "succeed", "fail"}

\* an indicator was evicted by a fragment of another id, another was cleared by
\* a result: both replacements have happened
SingleActiveSlotWitness ==
    /\ Len(spinners) = 2
    /\ spinners[1].halo = "stopped"
    /\ spinners[2].halo = "succeeded"
    /\ current_spinner = NoSpinner

\* ------------------------------------------------------------------- C2
\* the spinner.succeed calls of the last handler call made for invocation id
SucceedCalls(id) ==
    {k \in DOMAIN StepCalls : StepCalls[k].op = "succeed" /\ StepCalls[k].id = id}

\* C2 (correlation closes the loop): when a tool-result message reports success
\* for an id that a fragment had entered into the Ledger, then after the call
\* the Ledger no longer holds the id and exactly one succeed call was made for it.
CorrelationClosesLoop ==
    (Delivered /\ AllIdsPresent /\ IsToolResult(LastEvent)) =>
        \A i \in DOMAIN Results(LastEvent) :
           LET r == Results(LastEvent)[i]
           IN  (r.status = "success" /\ r.id \in Ids
                  /\ r.id \in DOMAIN prev.tool_histories) =>
                    /\ r.id \notin DOMAIN tool_histories
                    /\ Cardinality(SucceedCalls(r.id)) = 1

\* ------------------------------------------------------------------- C3
\* C3 (unknown completion is a no-op): a tool-result message none of whose ids
\* is in the Ledger makes no call on any indicator, prints nothing and leaves
\* the Ledger, the tracked id, the slot and every indicator as they were,
\* whatever the status it reports.
UnknownCompletionNoOp ==
    (Delivered /\ IsToolResult(LastEvent)
       /\ ResultIds(LastEvent) \cap DOMAIN prev.tool_histories = {}) =>
        /\ StepCalls = << >>
        /\ display = prev.display
        /\ stdout = prev.stdout
        /\ tool_histories = prev.tool_histories
        /\ current_tool = prev.current_tool
        /\ current_spinner = prev.current_spinner
        /\ spinners = prev.spinners

\* a result for an id that already completed arrives while another id is tracked
UnknownCompletionWitness ==
    /\ Len(events) = 3
    /\ IsToolInput(events[1]) /\ events[1].current_tool_use.id = "A"
    /\ IsToolResult(events[2]) /\ ResultIds(events[2]) = {"A"}
    /\ IsToolResult(LastEvent) /\ ResultIds(LastEvent) = {"A"}
    /\ Results(LastEvent)[1].status = "error"
    /\ Idle(Self)

\* a result for an id never seen arrives while another id is tracked
UnknownCompletionTrackingWitness ==
    /\ Delivered
    /\ IsToolResult(LastEvent) /\ ResultIds(LastEvent) = {"B"}
    /\ "B" \notin DOMAIN prev.tool_histories
    /\ Tracking(prev, "A") /\ Tracking(Self, "A")
    /\ current_spinner \in Spinning(spinners)

\* ------------------------------------------------------------------- C4
\* C4 (idempotence under duplicate / smaller sizes): a tool-input fragment whose
\* id is in the Ledger and whose input is no longer than the recorded size makes
\* no start and no update call and leaves the recorded size unchanged.
IdempotentSmallerSize ==
    (Delivered /\ AllIdsPresent /\ IsToolInput(LastEvent)) =>
        LET id == LastEvent.current_tool_use.id
            size == Len(LastEvent.current_tool_use.input.chars)
        IN  (id \in DOMAIN prev.tool_histories
               /\ size <= prev.tool_histories[id].input_size) =>
                 /\ \A k \in DOMAIN StepCalls : StepCalls[k].op \notin {"start", "update"}
                 /\ id \in DOMAIN tool_histories
                 /\ tool_histories[id].input_size = prev.tool_histories[id].input_size

\* ------------------------------------------------------------------- C5
\* C5 (monotonic size): the recorded input size of an id that stays in the
\* Ledger across a handler call does not decrease in that call (in a stream
\* all of whose fragments and results carry an id).
MonotonicSize ==
    AllIdsPresent =>
      \A id \in DOMAIN prev.tool_histories \cap DOMAIN tool_histories :
          tool_histories[id].input_size >= prev.tool_histories[id].input_size

\* ------------------------------------------------------------------- C6
\* what the terminal shows of standard output: the colour codes are not text
Visible(out) == SelectSeq(out, LAMBDA t : t \notin {WHITE, RESET})

\* the fragments of the first n events, concatenated in arrival order
RECURSIVE ConcatData(_)
ConcatData(n) == IF n = 0 THEN << >> ELSE ConcatData(n - 1) \o events[n].data

TextOnly == \A k \in DOMAIN events : IsText(events[k])

\* C6 (text passthrough): after text events of which only the last has
\* complete = true, the output is the fragments in arrival order followed by
\* exactly one line terminator; as long as no event was final, no line
\* terminator has been written.
TextPassthrough ==
    (Delivered /\ TextOnly) =>
        /\ (\A k \in DOMAIN events : ~events[k].complete) =>
              Visible(stdout) = ConcatData(Len(events))
        /\ ((\A k \in 1..(Len(events) - 1) : ~events[k].complete) /\ LastEvent.complete) =>
              Visible(stdout) = ConcatData(Len(events)) \o <<NL>>

\* ------------------------------------------------------------------- C7
\* fragments of the single id, possibly with text and tool-start notices in
\* between, then the successful result of that id
SoloRun(id) ==
    /\ Len(events) >= 2
    /\ LastEvent = ToolResultEv(<< <<id, "success">> >>)
    /\ \E k \in 1..(Len(events) - 1) :
          IsToolInput(events[k]) /\ events[k].current_tool_use.id = id
    /\ \A k \in 1..(Len(events) - 1) :
          \/ IsToolInput(events[k]) /\ events[k].current_tool_use.id = id
          \/ IsText(events[k])
          \/ IsToolStart(events[k])

DefensiveClassification == raised = "none"

\* ------------------------------------------------------------------ C10
\* C10 (release on interrupt): once the session loop has exited, no indicator
\* is left spinning.
ReleaseOnInterrupt == pc = "exited" => Spinning(spinners) = {}

\* ------------------------------------------------------------------ C11
\* C11 (upsert preserves an existing entry): a tool-input fragment whose id is
\* already in the Ledger leaves the name and the start time of that entry as
\* they were.
UpsertPreservesEntry ==
    (Delivered /\ AllIdsPresent /\ IsToolInput(LastEvent)) =>
        LET id == LastEvent.current_tool_use.id
        IN  id \in DOMAIN prev.tool_histories =>
              /\ id \in DOMAIN tool_histories
              /\ tool_histories[id].name = prev.tool_histories[id].name
              /\ tool_histories[id].start_time = prev.tool_histories[id].start_time

\* ------------------------------------------------------------------ C12
\* C12 (tool-start notice annotates in place): an assistant message with a
\* toolUse entry leaves the Ledger, the tracked id and the slot unchanged and
\* stops or finalizes no indicator: the indicator that was spinning still
\* spins; when the dispatcher is Idle the notice does nothing at all.
ToolStartedInPlace ==
    (Delivered /\ IsToolStart(LastEvent)) =>
        /\ tool_histories = prev.tool_histories
        /\ current_tool = prev.current_tool
        /\ current_spinner = prev.current_spinner
        /\ Spinning(spinners) = Spinning(prev.spinners)
        /\ \A k \in DOMAIN StepCalls : StepCalls[k].op \notin {"start", "stop", "succeed", "fail"}
        /\ Idle(prev) => (StepCalls = << >> /\ spinners = prev.spinners)

\* ------------------------------------------------------------------ C13
\* what the last handler call did, by kind
Count(seq, x) == Len(SelectSeq(seq, LAMBDA t : t = x))
TextEffect == Count(stdout, WHITE) > Count(prev.stdout, WHITE)
ToolInputEffect ==
    \E k \in DOMAIN StepCalls : StepCalls[k].op \in {"start", "stop", "update"}
MessageEffect ==
    \/ \E k \in DOMAIN StepCalls : StepCalls[k].op \in {"info", "succeed", "fail"}
    \/ DOMAIN prev.tool_histories \ DOMAIN tool_histories # {}

\* C13 (one kind per event): one handler call has the effects of at most one
\* kind of event: it prints text, or acts on tool input, or acts on a message.
OneKindPerEvent ==
    Delivered =>
        /\ ~(TextEffect /\ ToolInputEffect)
        /\ ~(TextEffect /\ MessageEffect)
        /\ ~(ToolInputEffect /\ MessageEffect)

\* ------------------------------------------------------------------ C14
\* C14 (staleness window): while id a is tracked, an event that is neither a
\* result for a nor a tool-input fragment of another id leaves a tracked with
\* its indicator in the slot.
StalenessWindow ==
    (Delivered /\ AllIdsPresent) =>
        \A a \in Ids :
            (/\ Tracking(prev, a)
             /\ ~(IsToolResult(LastEvent) /\ a \in ResultIds(LastEvent))
             /\ ~(IsToolInput(LastEvent) /\ LastEvent.current_tool_use.id # a)) =>
                /\ Tracking(Self, a)
                /\ current_spinner = prev.current_spinner

\* ------------------------------------------------------------------ C15
\* the succeed / fail calls of the last handler call
TerminalCalls == SelectSeq(StepCalls, LAMBDA c : c.op \in {"succeed", "fail"})

\* the first toolResult entry of e whose id is in the Ledger of h
FirstKnown(e, h) ==
    LET known == {i \in DOMAIN Results(e) : Results(e)[i].id \in DOMAIN h.tool_histories}
    IN  Results(e)[CHOOSE i \in known : \A j \in known : i <= j]

\* C15 (completion outcome, return to Idle): a tool-result message for an id
\* in the Ledger that arrives while a spinner is in the slot makes exactly one
\* terminal call, on that spinner: succeed if and only if the status is
\* "success", fail for every other status, an absent one included; its label
\* names the tool of the entry and the elapsed time; afterwards the dispatcher
\* is Idle and the id is out of the Ledger.
CompletionOutcome ==
    (/\ Delivered /\ IsToolResult(LastEvent)
     /\ prev.current_spinner # NoSpinner
     /\ ResultIds(LastEvent) \cap DOMAIN prev.tool_histories # {}) =>
        LET r == FirstKnown(LastEvent, prev)
            info == prev.tool_histories[r.id]
        IN  /\ Len(TerminalCalls) = 1
            /\ TerminalCalls[1].sp = prev.current_spinner
            /\ TerminalCalls[1].id = r.id
            /\ (TerminalCalls[1].op = "succeed") <=> (r.status = "success")
            /\ TerminalCalls[1].text =
                  Label(IF r.status = "success" THEN "completed" ELSE "failed",
                        info.name, now - info.start_time)
            /\ r.id \notin DOMAIN tool_histories
            /\ Idle(Self)
            /\ Spinning(spinners) = {}

\* a result without status arrives for the tracked id while its spinner spins
CompletionOutcomeWitness ==
    /\ Delivered /\ IsToolResult(LastEvent)
    /\ Tracking(prev, "A")
    /\ prev.current_spinner \in Spinning(prev.spinners)
    /\ Results(LastEvent) = <<ToolResultField("A", "None")>>
    /\ Ops(TerminalCalls) = <<"fail">>
    /\ Idle(Self)

\* ------------------------------------------------------------------ C16
\* C16 (incomplete events are dropped): a tool-input event without toolUseId
\* makes no call on any indicator and leaves the Ledger, the tracked id and
\* the slot unchanged.
AbsentIdDropped ==
    (Delivered /\ IsToolInput(LastEvent) /\ LastEvent.current_tool_use.id = NoId) =>
        /\ StepCalls = << >>
        /\ spinners = prev.spinners
        /\ tool_histories = prev.tool_histories
        /\ current_tool = prev.current_tool
        /\ current_spinner = prev.current_spinner

\* ------------------------------------------------------------------ C17
\* C17 (text does not touch tracking state): an event that carries only text
\* leaves the Ledger, the tracked id, the slot and every indicator (state and
\* label) unchanged and makes no call on any indicator.
TextLeavesTracking ==
    (Delivered /\ IsText(LastEvent)) =>
        /\ tool_histories = prev.tool_histories
        /\ current_tool = prev.current_tool
        /\ current_spinner = prev.current_spinner
        /\ spinners = prev.spinners
        /\ StepCalls = << >>

\* text is printed while an id is tracked and its indicator spins
TextLeavesTrackingWitness ==
    /\ Delivered /\ IsText(LastEvent)
    /\ LastEvent.data = <<"a">>
    /\ Count(stdout, WHITE) = 1
    /\ Tracking(Self, "A")
    /\ current_spinner \in Spinning(spinners)

\* ------------------------------------------------------------------ C18
\* C18 (terminal render goes to the right indicator): every succeed / fail
\* call made for the result of an id lands on an indicator that was started
\* for that id.
RenderOnOwnIndicator ==
    AllIdsPresent =>
        \A k \in DOMAIN display :
            display[k].op \in {"succeed", "fail"} =>
                spinners[display[k].sp].tool = display[k].id

\* ------------------------------------------------------------------ C19
\* C19 (slot consistency): after every handler call a spinner is in the slot
\* if and only if an id is tracked, and a tracked id is a key of the Ledger.
SlotConsistency ==
    /\ (current_spinner # NoSpinner) <=> (current_tool # NoId)
    /\ current_tool # NoId => current_tool \in DOMAIN tool_histories

\* ------------------------------------------------------------------ C20
\* The runtime's guarantee: every id that received a tool-input fragment gets
\* a matching tool result after its last fragment.  The stream has finitely
\* many fragments; the results the runtime owes are always deliverable.
IsFragment(e) == e.current_tool_use.shape = "dict"
FragmentCount == Len(SelectSeq(events, IsFragment))

\* the ids with a fragment that no later result has answered
Owed ==
    {id \in Ids \cup {NoId} :
        \E k \in DOMAIN events :
            /\ IsFragment(events[k]) /\ events[k].current_tool_use.id = id
            /\ \A j \in (k + 1)..Len(events) :
                  ~(IsToolResult(events[j]) /\ id \in ResultIds(events[j]))}

\* a tool-input fragment of the bounded stream (its first character)
LiveFragment ==
    /\ FragmentCount < MaxFragments
    /\ \E id \in Ids \cup {NoId}, name \in Names :
          Deliver(ToolInputEv(id, name, StrInput(<<"x">>)))

\* the runtime delivers the result it owes to id
OwedResult(id) ==
    /\ id \in Owed
    /\ \E status \in Statuses : Deliver(ToolResultEv(<< <<id, status>> >>))

NextLive ==
    \/ LiveFragment
    \/ \E id \in Ids \cup {NoId} : OwedResult(id)

SpecLive ==
    /\ Init
    /\ [][NextLive]_vars
    /\ \A id \in Ids \cup {NoId} : WF_vars(OwedResult(id))

\* nothing dangles: empty Ledger, no tracked id, no spinner in the slot, none spinning
Clean ==
    /\ DOMAIN tool_histories = {}
    /\ Idle(Self)
    /\ Spinning(spinners) = {}

\* C20 (eventual cleanup under the runtime's guarantee): whenever a Ledger
\* entry, a tracked id or an indicator exists, the Ledger eventually is empty
\* and the dispatcher Idle with no indicator spinning.
EventualCleanup == (~Clean) ~> Clean

\* two interleaved ids, each answered after its fragment, and nothing is left
EventualCleanupWitness ==
    /\ Len(events) = 4
    /\ IsToolInput(events[1]) /\ events[1].current_tool_use.id = "A"
    /\ IsToolInput(events[2]) /\ events[2].current_tool_use.id = "B"
    /\ IsToolResult(events[3]) /\ ResultIds(events[3]) = {"A"}
    /\ IsToolResult(events[4]) /\ ResultIds(events[4]) = {"B"}
    /\ Owed = {}
    /\ Clean
====
